---- MODULE Spec2Model ----
(***************************************************************************)
(* Model of mac-clip (src/src/main.rs): the clipboard monitor thread, the  *)
(* hotkey listener thread, the relay thread (mpsc -> watch), the iced      *)
(* subscription (changed() then borrow()) and MacClip::update.             *)
(*                                                                         *)
(* A text is a sequence of one-character strings, so that trim() and       *)
(* is_empty() are computed and not assumed.                                *)
(***************************************************************************)
EXTENDS Integers, Sequences, FiniteSets, TLC

(* const MAX_HISTORY_SIZE: usize = 50; *)
MAX_HISTORY_SIZE == 50

(* ------------------------------ bounds -------------------------------- *)
(* how many times another application replaces the clipboard text *)
MaxCopies == 2
(* how many hotkey presses the OS delivers *)
MaxPresses == 2
(* how many SelectEntry messages the user interface delivers *)
MaxSelects == 1
(* how many writes of the history file fail *)
MaxFailures == 1
(* how many times the process is stopped and started again *)
MaxRestarts == 1
(* how many of these inputs one run receives in total *)
MaxInputs == 3

(* the texts the external clipboard can hold *)
ClipTexts == { <<>>, <<" ">>, <<"a">>, <<"b">> }
(* the values SystemTime::now().as_secs() returns *)
Timestamps == { 100 }
(* the indices a SelectEntry message carries *)
SelectIndices == { 0, 1, MAX_HISTORY_SIZE - 1, MAX_HISTORY_SIZE }

(* ------------------------------ text ---------------------------------- *)
(* char::is_whitespace, on the characters of the model *)
is_whitespace(ch) == ch \in { " ", "\t", "\n" }

(* str::is_empty *)
is_empty(s) == Len(s) = 0

RECURSIVE trim_start(_)
trim_start(s) ==
    IF s # <<>> /\ is_whitespace(Head(s)) THEN trim_start(Tail(s)) ELSE s

RECURSIVE trim_end(_)
trim_end(s) ==
    IF s # <<>> /\ is_whitespace(s[Len(s)])
    THEN trim_end(SubSeq(s, 1, Len(s) - 1))
    ELSE s

(* str::trim *)
trim(s) == trim_end(trim_start(s))

(* ------------------------- VecDeque<ClipboardEntry> -------------------- *)
ClipboardEntry(content, timestamp) ==
    [content |-> content, timestamp |-> timestamp]

push_front(q, e) == <<e>> \o q

(* pop_front in the place of pop_back *)
pop_back_front(q) == Tail(q)

pop_back(q) == SubSeq(q, 1, Len(q) - 1)

(* a comparison with every entry in the place of the newest one *)
differs_from_all(q, content) == \A k \in 1..Len(q) : q[k].content # content

(* entries.front().map(|e| &e.content) != Some(&content) *)
front_differs(q, content) == q = <<>> \/ q[1].content # content

(* entries.get(index), index counted from 0 *)
has_entry(q, index) == index < Len(q)

get(q, index) == q[index + 1]

(* the insertion without the eviction of lines 195-197 *)
record_unbounded(q, content, timestamp) ==
    IF front_differs(q, content)
    THEN push_front(q, ClipboardEntry(content, timestamp))
    ELSE q

(* lines 188-197: what ClipboardChanged(content) does to the history once   *)
(* the content passed the blank check                                      *)
record(q, content, timestamp) ==
    IF front_differs(q, content)
    THEN LET pushed == push_front(q, ClipboardEntry(content, timestamp))
         IN  IF Len(pushed) > MAX_HISTORY_SIZE THEN pop_back(pushed) ELSE pushed
    ELSE q

(* the blank check without the trim *)
is_blank_untrimmed(content) == is_empty(content)

(* lines 179-181: content.trim().is_empty() *)
is_blank(content) == is_empty(trim(content))

(* --------------------------- history file ------------------------------ *)
(* A file is absent, holds a text, or holds bytes that are not UTF-8.  A   *)
(* text is a sequence of characters; the two keys are one symbol each.     *)
Quote == "\""
Backslash == "\\"
Digits == << "0", "1", "2", "3", "4", "5", "6", "7", "8", "9" >>

NoFile == [kind |-> "absent", data |-> <<>>]
TextFile(text) == [kind |-> "text", data |-> text]
BinaryFile == [kind |-> "binary", data |-> <<>>]

(* serde_json's escaping of one character of a string *)
escape(ch) ==
    IF ch = Quote THEN << Backslash, Quote >>
    ELSE IF ch = Backslash THEN << Backslash, Backslash >>
    ELSE IF ch = "\n" THEN << Backslash, "n" >>
    ELSE IF ch = "\t" THEN << Backslash, "t" >>
    ELSE << ch >>

RECURSIVE escaped(_)
escaped(s) == IF s = <<>> THEN <<>> ELSE escape(Head(s)) \o escaped(Tail(s))

(* a String as JSON *)
json_string(s) == << Quote >> \o escaped(s) \o << Quote >>

(* a u64 as JSON *)
RECURSIVE json_number(_)
json_number(n) ==
    IF n < 10 THEN << Digits[n + 1] >>
    ELSE json_number(n \div 10) \o << Digits[(n % 10) + 1] >>

(* #[derive(Serialize)] of ClipboardEntry, lines 32-36 *)
json_entry(e) ==
    << "{", Quote, "content", Quote, ":" >> \o json_string(e.content)
    \o << ",", Quote, "timestamp", Quote, ":" >> \o json_number(e.timestamp)
    \o << "}" >>

(* the entries q[from] .. q[to], separated by commas *)
RECURSIVE json_entries(_, _, _)
json_entries(q, from, to) ==
    IF from > to THEN <<>>
    ELSE IF from = to THEN json_entry(q[from])
    ELSE LET mid == (from + to) \div 2
         IN  json_entries(q, from, mid) \o << "," >> \o json_entries(q, mid + 1, to)

(* the list written oldest first *)
to_string_oldest_first(q) ==
    << "[" >>
    \o json_entries([k \in 1..Len(q) |-> q[Len(q) + 1 - k]], 1, Len(q))
    \o << "]" >>

(* line 199: serde_json::to_string(&self.entries) *)
to_string(q) == << "[" >> \o json_entries(q, 1, Len(q)) \o << "]" >>

(* the results of the parsers: the value and the position after it *)
ParseErr == [ok |-> FALSE, value |-> <<>>, pos |-> 0]
ParseOk(value, pos) == [ok |-> TRUE, value |-> value, pos |-> pos]

(* text[pos .. pos + Len(symbols) - 1] = symbols *)
expect(text, pos, symbols) ==
    /\ pos + Len(symbols) - 1 <= Len(text)
    /\ \A k \in 1..Len(symbols) : text[pos + k - 1] = symbols[k]

(* the characters of a JSON string up to its closing quote *)
RECURSIVE parse_chars(_, _, _)
parse_chars(text, pos, acc) ==
    IF pos > Len(text) THEN ParseErr
    ELSE IF text[pos] = Quote THEN ParseOk(acc, pos + 1)
    ELSE IF text[pos] = Backslash
    THEN IF pos + 1 > Len(text) THEN ParseErr
         ELSE IF text[pos + 1] \in { Quote, Backslash }
         THEN parse_chars(text, pos + 2, Append(acc, text[pos + 1]))
         ELSE IF text[pos + 1] = "n" THEN parse_chars(text, pos + 2, Append(acc, "\n"))
         ELSE IF text[pos + 1] = "t" THEN parse_chars(text, pos + 2, Append(acc, "\t"))
         ELSE ParseErr
    ELSE IF text[pos] \in { "\n", "\t" } THEN ParseErr
    ELSE parse_chars(text, pos + 1, Append(acc, text[pos]))

parse_string(text, pos) ==
    IF expect(text, pos, << Quote >>) THEN parse_chars(text, pos + 1, <<>>)
    ELSE ParseErr

DigitValues == { <<Digits[d + 1], d>> : d \in 0..9 }

digit_value(ch) == CHOOSE d \in 0..9 : <<ch, d>> \in DigitValues

is_digit(text, pos) ==
    pos <= Len(text) /\ text[pos] \in { "0", "1", "2", "3", "4", "5", "6", "7", "8", "9" }

RECURSIVE parse_digits(_, _, _)
parse_digits(text, pos, acc) ==
    IF is_digit(text, pos)
    THEN parse_digits(text, pos + 1, 10 * acc + digit_value(text[pos]))
    ELSE ParseOk(acc, pos)

parse_number(text, pos) ==
    IF is_digit(text, pos) THEN parse_digits(text, pos, 0) ELSE ParseErr

(* #[derive(Deserialize)] of ClipboardEntry, lines 32-36 *)
parse_entry(text, pos) ==
    IF ~expect(text, pos, << "{", Quote, "content", Quote, ":" >>) THEN ParseErr
    ELSE LET content == parse_string(text, pos + 5)
         IN  IF ~content.ok THEN ParseErr
             ELSE IF ~expect(text, content.pos,
                             << ",", Quote, "timestamp", Quote, ":" >>)
             THEN ParseErr
             ELSE LET timestamp == parse_number(text, content.pos + 5)
                  IN  IF ~timestamp.ok THEN ParseErr
                      ELSE IF ~expect(text, timestamp.pos, << "}" >>) THEN ParseErr
                      ELSE ParseOk(ClipboardEntry(content.value, timestamp.value),
                                   timestamp.pos + 1)

RECURSIVE parse_entries(_, _, _)
parse_entries(text, pos, acc) ==
    LET entry == parse_entry(text, pos)
    IN  IF ~entry.ok THEN ParseErr
        ELSE IF expect(text, entry.pos, << "," >>)
        THEN parse_entries(text, entry.pos + 1, Append(acc, entry.value))
        ELSE IF expect(text, entry.pos, << "]" >>) /\ entry.pos = Len(text)
        THEN ParseOk(Append(acc, entry.value), entry.pos + 1)
        ELSE ParseErr

(* line 85: serde_json::from_str::<VecDeque<ClipboardEntry>>(&data) *)
from_str(text) ==
    IF text = << "[", "]" >> THEN ParseOk(<<>>, 3)
    ELSE IF expect(text, 1, << "[" >>) THEN parse_entries(text, 2, <<>>)
    ELSE ParseErr

(* line 84: fs::read_to_string(&storage_path) is Ok *)
is_text(f) == f.kind = "text"

(* lines 82-89: the history MacClip::new starts with when it does not panic: *)
(* a missing file and a text that does not parse both give the empty list  *)
load(f) ==
    IF f.kind = "absent" THEN <<>>
    ELSE IF is_text(f)
    THEN LET parsed == from_str(f.data)
         IN  IF parsed.ok THEN parsed.value ELSE <<>>
    ELSE <<>>

(* a file that is not the JSON of a history *)
Malformed == TextFile(<< "n", "o", "t", " ", "j", "s", "o", "n" >>)

(* a history of n entries as the program itself persists it: adjacent     *)
(* entries differ in content                                               *)
SavedHistory(n) ==
    [k \in 1..n |-> ClipboardEntry(IF k % 2 = 1 THEN <<"a">> ELSE <<"b">>, n - k)]

(* a saved history whose text needs escapes *)
QuotedHistory == << ClipboardEntry(<< Quote, "a", "\n", Backslash >>, 7) >>

(* the history files found at startup *)
InitFiles ==
    { NoFile, Malformed, BinaryFile,
      TextFile(to_string(SavedHistory(1))),
      TextFile(to_string(QuotedHistory)),
      TextFile(to_string(SavedHistory(MAX_HISTORY_SIZE))) }

(* ------------------------------ state ---------------------------------- *)
VARIABLES
    entries,                 \* MacClip.entries, newest first
    window_visible,          \* MacClip.window_visible
    last_clipboard_content,  \* MacClip.last_clipboard_content
    storage,                 \* the file at MacClip.storage_path
    clipboard,               \* the text of the external clipboard
    mutex,                   \* holder of the Mutex<Clipboard>: "free", "watcher", "core"
    watcher_pc,              \* clipboard monitor thread: "sleep", "locked",
                             \* or "busy": locked while get_text will fail
    last_content,            \* last_content of the clipboard monitor thread
    rx,                      \* events in the mpsc channel (tx -> rx)
    event_tx,                \* the watch channel: its value and its version
    event_rx,                \* the version the subscription's receiver has seen
    sub_pc,                  \* subscription: "changed" or "borrow"
    messages,                \* messages the runtime has queued for update
    commands,                \* Command::perform futures not yet completed
    window_mode,             \* the last window::change_mode issued
    pastes,                  \* paste keystroke sequences injected
    applied,                 \* the events update has applied, in order
    sent,                    \* number of events sent on tx
    copies,                  \* clipboard replacements by other applications
    presses,                 \* hotkey notifications delivered by the OS
    selects,                 \* SelectEntry messages delivered
    restarts,                \* times the process was started again
    failures,                \* writes of the history file that failed
    daemon,                  \* the command line holds --daemon
    process,                 \* "running", "exited" (code 0), "panicked"
    core_pc                  \* update: "idle", or "paste" inside SelectEntry

vars == << entries, window_visible, last_clipboard_content, storage, clipboard,
           mutex, watcher_pc, last_content, rx, event_tx, event_rx, sub_pc,
           messages, commands, window_mode, pastes, applied, sent, copies,
           presses, selects, restarts, failures, daemon, process,
           core_pc >>

core_vars == << entries, window_visible, last_clipboard_content, storage,
                window_mode, pastes, applied, failures, daemon, process,
                core_pc >>
watcher_vars == << watcher_pc, last_content >>
bus_vars == << rx, event_tx, event_rx, sub_pc >>
env_vars == << copies, presses, selects, restarts >>

(* the run may still receive an input from outside *)
more_inputs ==
    /\ process = "running"
    /\ copies + presses + selects + restarts + failures < MaxInputs

(* ------------------------------ events --------------------------------- *)
(* Event::ClipboardChanged(content); id is the position in the send order *)
ClipboardChanged(content, id) ==
    [kind |-> "ClipboardChanged", content |-> content, id |-> id]

(* Event::HotkeyTriggered *)
HotkeyTriggered(id) ==
    [kind |-> "HotkeyTriggered", content |-> <<>>, id |-> id]

(* the None the watch channel is created with *)
None == [kind |-> "None", content |-> <<>>, id |-> 0]

(* Message::EventReceived(event), Message::HotkeyPressed, Message::ToggleWindow *)
EventReceived(event) == [type |-> "EventReceived", event |-> event]
HotkeyPressed == [type |-> "HotkeyPressed", event |-> None]
ToggleWindow == [type |-> "ToggleWindow", event |-> None]

(* a channel that hands out the newest event first *)
send_front(q, event) == <<event>> \o q

(* tx.send(event): unbounded, never blocks *)
send(q, event) == Append(q, event)

(* ------------------------------ startup -------------------------------- *)
(* what daemon::setup_daemon meets: BaseDirs::new() is Some, and           *)
(* create_dir_all, fs::write and the spawn of launchctl are Ok             *)
DaemonEnvs ==
    [base_dirs : BOOLEAN, create_dir : BOOLEAN, write_plist : BOOLEAN,
     launchctl : BOOLEAN]

(* daemon.rs lines 5-56: Ok(()) unless BaseDirs is None or a `?` returns    *)
(* the Err; the exit status of launchctl is not looked at                  *)
setup_daemon(env) ==
    env.base_dirs /\ env.create_dir /\ env.write_plist /\ env.launchctl

(* main, lines 346-368, and line 84 of MacClip::new: the process exits     *)
(* with Ok(()) after a successful setup_daemon; in every other case        *)
(* MacClip::run starts the application, which panics in                    *)
(* read_to_string(..).expect(..) when the history file is not a text       *)
start_process(flag, env, f) ==
    IF flag /\ setup_daemon(env) THEN "exited"
    ELSE IF f.kind = "binary" THEN "panicked"
    ELSE "running"

(* MacClip::new and the Settings of main: lines 82-89, 103-104, 134,      *)
(* 150-166, 359-367                                                        *)
Startup(flag) ==
    /\ daemon = flag
    /\ storage \in InitFiles
    /\ process \in { start_process(flag, env, storage) : env \in DaemonEnvs }
    /\ entries = IF process = "running" THEN load(storage) ELSE <<>>
    /\ window_visible = FALSE
    /\ clipboard = <<>>
    /\ last_clipboard_content = clipboard
    /\ mutex = "free"
    /\ watcher_pc = "sleep"
    /\ last_content = <<>>
    /\ rx = <<>>
    /\ event_tx = [value |-> None, version |-> 0]
    /\ event_rx = 0
    /\ sub_pc = "changed"
    /\ messages = <<>>
    /\ commands = 0
    /\ window_mode = "Hidden"
    /\ pastes = 0
    /\ applied = <<>>
    /\ sent = 0
    /\ copies = 0
    /\ presses = 0
    /\ selects = 0
    /\ restarts = 0
    /\ failures = 0
    /\ core_pc = "idle"

(* the program started without arguments *)
Init == Startup(FALSE)

(* the program started with --daemon *)
InitDaemon == Startup(TRUE)

(* the process is stopped and main runs again: the history comes from the  *)
(* file, everything else is built anew                                     *)
Restart ==
    /\ more_inputs
    /\ restarts < MaxRestarts
    /\ restarts' = restarts + 1
    /\ process' \in { start_process(daemon, env, storage) : env \in DaemonEnvs }
    /\ entries' = IF process' = "running" THEN load(storage) ELSE <<>>
    /\ window_visible' = FALSE
    /\ last_clipboard_content' = clipboard
    /\ mutex' = "free"
    /\ watcher_pc' = "sleep"
    /\ last_content' = <<>>
    /\ rx' = <<>>
    /\ event_tx' = [value |-> None, version |-> 0]
    /\ event_rx' = 0
    /\ sub_pc' = "changed"
    /\ messages' = <<>>
    /\ commands' = 0
    /\ window_mode' = "Hidden"
    /\ applied' = <<>>
    /\ sent' = 0
    /\ core_pc' = "idle"
    /\ UNCHANGED << storage, clipboard, pastes, copies, presses, selects,
                    failures, daemon >>

(* ------------------------- the environment ----------------------------- *)
(* another application puts a text on the clipboard *)
Copy ==
    /\ more_inputs
    /\ copies < MaxCopies
    /\ \E c \in ClipTexts \ { clipboard } : clipboard' = c
    /\ copies' = copies + 1
    /\ UNCHANGED << core_vars, watcher_vars, bus_vars, mutex, messages,
                    commands, sent, presses, selects, restarts >>

(* ---------------------- hotkey listener thread ------------------------- *)
(* lines 119-127: one notification of GlobalHotKeyEvent::receiver() *)
HotkeyListener ==
    /\ more_inputs
    /\ presses < MaxPresses
    /\ \E state \in { "Pressed", "Released" } :
          IF state = "Pressed"
          THEN /\ rx' = send(rx, HotkeyTriggered(sent + 1))
               /\ sent' = sent + 1
               /\ presses' = presses + 1
          ELSE UNCHANGED << rx, sent, presses >>
    /\ UNCHANGED << core_vars, watcher_vars, event_tx, event_rx, sub_pc,
                    clipboard, mutex, messages, commands, copies, selects,
                    restarts >>

(* --------------------- clipboard monitor thread ------------------------ *)
(* lines 136-138: the sleep ends and clipboard_clone.lock() is acquired;  *)
(* the external clipboard is readable or not for this iteration           *)
WatcherLock ==
    /\ process = "running"
    /\ watcher_pc = "sleep"
    /\ mutex = "free"
    /\ mutex' = "watcher"
    /\ watcher_pc' \in { "locked", "busy" }
    /\ UNCHANGED << core_vars, last_content, bus_vars, clipboard, messages,
                    commands, sent, env_vars >>

(* a poll that forgets what it has sent *)
WatcherPoll_forgetful ==
    /\ process = "running"
    /\ watcher_pc # "sleep"
    /\ IF watcher_pc = "locked" /\ ~is_empty(clipboard)
       THEN /\ last_content' = last_content
            /\ rx' = send(rx, ClipboardChanged(clipboard, sent + 1))
            /\ sent' = sent + 1
       ELSE UNCHANGED << last_content, rx, sent >>
    /\ mutex' = "free"
    /\ watcher_pc' = "sleep"
    /\ UNCHANGED << core_vars, event_tx, event_rx, sub_pc, clipboard,
                    messages, commands, env_vars >>

(* lines 139-146: get_text, the comparison, the send, the guard dropped *)
WatcherPoll ==
    /\ process = "running"
    /\ watcher_pc # "sleep"
    /\ LET read_ok == watcher_pc = "locked"
       IN  IF read_ok /\ ~is_empty(clipboard) /\ clipboard # last_content
           THEN /\ last_content' = clipboard
                /\ rx' = send(rx, ClipboardChanged(clipboard, sent + 1))
                /\ sent' = sent + 1
           ELSE UNCHANGED << last_content, rx, sent >>
    /\ mutex' = "free"
    /\ watcher_pc' = "sleep"
    /\ UNCHANGED << core_vars, event_tx, event_rx, sub_pc, clipboard,
                    messages, commands, env_vars >>

(* ---------------------- event processor thread ------------------------- *)
(* lines 109-116: rx.recv().await, then event_tx_clone.send(Some(event)) *)
Relay ==
    /\ process = "running"
    /\ rx # <<>>
    /\ event_tx' = [value |-> Head(rx), version |-> event_tx.version + 1]
    /\ rx' = Tail(rx)
    /\ UNCHANGED << core_vars, watcher_vars, event_rx, sub_pc, clipboard,
                    mutex, messages, commands, sent, env_vars >>

(* a changed() that returns although nothing was published *)
SubscriptionChanged_eager ==
    /\ process = "running"
    /\ sub_pc = "changed"
    /\ event_rx' = event_tx.version
    /\ sub_pc' = "borrow"
    /\ UNCHANGED << core_vars, watcher_vars, rx, event_tx, clipboard, mutex,
                    messages, commands, sent, env_vars >>

(* --------------------------- subscription ------------------------------ *)
(* line 336: rx.changed().await returns once the version is unseen *)
SubscriptionChanged ==
    /\ process = "running"
    /\ sub_pc = "changed"
    /\ event_tx.version # event_rx
    /\ event_rx' = event_tx.version
    /\ sub_pc' = "borrow"
    /\ UNCHANGED << core_vars, watcher_vars, rx, event_tx, clipboard, mutex,
                    messages, commands, sent, env_vars >>

(* lines 336-340: rx.borrow().clone() and the message it becomes *)
borrowed_message(value) ==
    IF value.kind # "None" THEN EventReceived(value) ELSE HotkeyPressed

SubscriptionBorrow ==
    /\ process = "running"
    /\ sub_pc = "borrow"
    /\ messages' = Append(messages, borrowed_message(event_tx.value))
    /\ sub_pc' = "changed"
    /\ UNCHANGED << core_vars, watcher_vars, rx, event_tx, event_rx,
                    clipboard, mutex, commands, sent, env_vars >>

(* Command::perform(async {}, |_| Message::ToggleWindow) completes *)
CommandPerform ==
    /\ process = "running"
    /\ commands > 0
    /\ commands' = commands - 1
    /\ messages' = Append(messages, ToggleWindow)
    /\ UNCHANGED << core_vars, watcher_vars, bus_vars, clipboard, mutex,
                    sent, env_vars >>

(* ------------------------------ update --------------------------------- *)
(* what fs::write(&self.storage_path, json) leaves on disk: Ok(()) and the *)
(* whole text, an Err before the file was opened and the old file, or an   *)
(* Err after the file was truncated and only the beginning of the text     *)
WriteOutcomes == { "ok", "failed", "partial" }

(* the beginning of the text a write reached before it failed *)
written_part(json) == SubSeq(json, 1, Len(json) - 1)

fs_write(f, json, outcome) ==
    IF outcome = "ok" THEN TextFile(json)
    ELSE IF outcome = "partial" THEN TextFile(written_part(json))
    ELSE f

(* line 208 and line 245: self.window_visible = !self.window_visible *)
toggled(visible) == ~visible

(* lines 249-258: the window commands of Message::ToggleWindow *)
mode_for(visible) == IF ~visible THEN "Hidden" ELSE "Windowed"

(* the newest entry in the place of the selected one *)
newest_content(q, index) == get(q, 0).content

(* line 223: entry.content.clone() of the selected entry *)
selected_content(q, index) == get(q, index).content

(* an insertion that is undone when the write fails *)
update_ClipboardChanged_rollback(content) ==
    /\ IF is_blank(content) \/ ~front_differs(entries, content)
       THEN UNCHANGED << entries, storage, failures >>
       ELSE \E timestamp \in Timestamps :
               LET json == to_string(record(entries, content, timestamp))
               IN  \E outcome \in IF more_inputs /\ failures < MaxFailures
                                  THEN WriteOutcomes ELSE { "ok" } :
                      /\ storage' = fs_write(storage, json, outcome)
                      /\ entries' = IF outcome = "ok"
                                    THEN record(entries, content, timestamp)
                                    ELSE entries
                      /\ failures' = IF outcome = "ok" THEN failures
                                     ELSE failures + 1
    /\ UNCHANGED << window_visible, commands >>

(* the results fs::write can still have in this run *)
write_outcomes == IF more_inputs /\ failures < MaxFailures THEN WriteOutcomes ELSE { "ok" }

(* lines 177-205: Event::ClipboardChanged(content) *)
update_ClipboardChanged(content) ==
    /\ IF is_blank(content) \/ ~front_differs(entries, content)
       THEN UNCHANGED << entries, storage, failures >>
       ELSE \E timestamp \in Timestamps :
               /\ entries' = record(entries, content, timestamp)
               /\ LET json == to_string(entries')
                  IN  \E outcome \in write_outcomes :
                         /\ storage' = fs_write(storage, json, outcome)
                         /\ failures' = IF outcome = "ok" THEN failures
                                        ELSE failures + 1
    /\ UNCHANGED << window_visible, commands >>

(* a hotkey that flips the flag and returns no command *)
update_HotkeyTriggered_silent ==
    /\ window_visible' = toggled(window_visible)
    /\ commands' = commands
    /\ UNCHANGED << entries, storage, failures >>

(* lines 206-210: Event::HotkeyTriggered *)
update_HotkeyTriggered ==
    /\ window_visible' = toggled(window_visible)
    /\ commands' = commands + 1
    /\ UNCHANGED << entries, storage, failures >>

(* lines 175-213: Message::EventReceived(event) *)
update_EventReceived(event) ==
    /\ applied' = Append(applied, event)
    /\ IF event.kind = "ClipboardChanged"
       THEN update_ClipboardChanged(event.content)
       ELSE update_HotkeyTriggered
    /\ UNCHANGED << window_mode >>

(* lines 244-247: Message::HotkeyPressed *)
update_HotkeyPressed ==
    /\ window_visible' = toggled(window_visible)
    /\ commands' = commands + 1
    /\ UNCHANGED << entries, storage, window_mode, applied, failures >>

(* lines 248-259: Message::ToggleWindow *)
update_ToggleWindow ==
    /\ window_mode' = mode_for(window_visible)
    /\ UNCHANGED << entries, storage, window_visible, commands, applied,
                    failures >>

(* lines 173-261: update called with the next message of the runtime; no   *)
(* code constructs Message::ClipboardUpdated, so it is never delivered     *)
Update ==
    /\ process = "running"
    /\ core_pc = "idle"
    /\ messages # <<>>
    /\ LET message == Head(messages)
       IN  CASE message.type = "EventReceived" -> update_EventReceived(message.event)
             [] message.type = "HotkeyPressed" -> update_HotkeyPressed
             [] OTHER -> update_ToggleWindow
    /\ messages' = Tail(messages)
    /\ UNCHANGED << last_clipboard_content, pastes, watcher_vars, bus_vars,
                    clipboard, mutex, sent, env_vars, daemon, process,
                    core_pc >>

(* a selection that also moves the selected text to the front *)
update_SelectEntry_promotes(index) ==
    /\ core_pc = "idle"
    /\ IF has_entry(entries, index)
       THEN /\ mutex = "free"
            /\ window_visible' = FALSE
            /\ entries' = record(entries, selected_content(entries, index),
                                 get(entries, index).timestamp)
            /\ \E set_ok \in BOOLEAN :
                  IF set_ok
                  THEN /\ clipboard' = selected_content(entries, index)
                       /\ last_clipboard_content' = selected_content(entries, index)
                       /\ mutex' = "core"
                       /\ core_pc' = "paste"
                       /\ commands' = commands
                  ELSE /\ commands' = commands + 1
                       /\ UNCHANGED << clipboard, last_clipboard_content,
                                       mutex, core_pc >>
       ELSE /\ commands' = commands + 1
            /\ UNCHANGED << entries, window_visible, clipboard,
                            last_clipboard_content, mutex, core_pc >>
    /\ UNCHANGED << storage, window_mode, applied, messages, pastes,
                    watcher_vars, bus_vars, sent, copies, presses, restarts,
                    failures, daemon, process >>

(* a selection that pastes whether or not set_text succeeded *)
update_SelectEntry_paste_anyway(index) ==
    /\ core_pc = "idle"
    /\ IF has_entry(entries, index)
       THEN /\ mutex = "free"
            /\ window_visible' = FALSE
            /\ \E set_ok \in BOOLEAN :
                  /\ clipboard' = IF set_ok
                                  THEN selected_content(entries, index)
                                  ELSE clipboard
                  /\ last_clipboard_content' =
                        IF set_ok THEN selected_content(entries, index)
                        ELSE last_clipboard_content
                  /\ mutex' = "core"
                  /\ core_pc' = "paste"
                  /\ commands' = commands
       ELSE /\ commands' = commands + 1
            /\ UNCHANGED << window_visible, clipboard,
                            last_clipboard_content, mutex, core_pc >>
    /\ UNCHANGED << entries, storage, window_mode, applied, messages, pastes,
                    watcher_vars, bus_vars, sent, copies, presses, restarts,
                    failures, daemon, process >>

(* lines 220-233: Message::SelectEntry(index), sent by a button of view,   *)
(* up to the result of set_text; self.clipboard.lock() waits until the     *)
(* monitor thread dropped its guard.  After an Ok the guard is still held  *)
(* and the keystrokes follow; after an Err, or without an entry, update    *)
(* returns the command of line 242                                         *)
update_SelectEntry(index) ==
    /\ core_pc = "idle"
    /\ IF has_entry(entries, index)
       THEN /\ mutex = "free"
            /\ window_visible' = FALSE
            /\ \E set_ok \in BOOLEAN :
                  IF set_ok
                  THEN /\ clipboard' = selected_content(entries, index)
                       /\ last_clipboard_content' = selected_content(entries, index)
                       /\ mutex' = "core"
                       /\ core_pc' = "paste"
                       /\ commands' = commands
                  ELSE /\ commands' = commands + 1
                       /\ UNCHANGED << clipboard, last_clipboard_content,
                                       mutex, core_pc >>
       ELSE /\ commands' = commands + 1
            /\ UNCHANGED << window_visible, clipboard, last_clipboard_content,
                            mutex, core_pc >>
    /\ UNCHANGED << entries, storage, window_mode, applied, messages, pastes,
                    watcher_vars, bus_vars, sent, copies, presses, restarts,
                    failures, daemon, process >>

SelectEntry ==
    /\ more_inputs
    /\ selects < MaxSelects
    /\ selects' = selects + 1
    /\ \E index \in SelectIndices : update_SelectEntry(index)

(* lines 235-242: key_down(Meta), key_click('v'), key_up(Meta) with the    *)
(* guard of line 227 still alive, then the guard is dropped and update     *)
(* returns the command                                                     *)
PasteKeystrokes ==
    /\ process = "running"
    /\ core_pc = "paste"
    /\ pastes' = pastes + 1
    /\ mutex' = "free"
    /\ core_pc' = "idle"
    /\ commands' = commands + 1
    /\ UNCHANGED << entries, window_visible, last_clipboard_content, storage,
                    window_mode, applied, clipboard, messages, watcher_vars,
                    bus_vars, sent, env_vars, failures, daemon, process >>

(* ---------------------------- specification ---------------------------- *)
Next ==
    \/ Copy
    \/ HotkeyListener
    \/ WatcherLock
    \/ WatcherPoll
    \/ Relay
    \/ SubscriptionChanged
    \/ SubscriptionBorrow
    \/ CommandPerform
    \/ Update
    \/ SelectEntry
    \/ PasteKeystrokes

Spec == Init /\ [][Next]_vars

(* the same program started with --daemon *)
SpecDaemon == InitDaemon /\ [][Next]_vars

(* the program with restarts of its process, started without a history    *)
(* file or with a short one                                                *)
InitRestart == Init /\ Len(load(storage)) < MAX_HISTORY_SIZE

NextRestart == Next \/ Restart

SpecRestart == InitRestart /\ [][NextRestart]_vars

(* ------------------------- reading a behaviour ------------------------- *)
(* the entries' contents, newest first *)
Contents(q) == [k \in 1..Len(q) |-> q[k].content]

(* the texts an event can carry: copied by another application, or put on *)
(* the clipboard by the selection of a saved entry                         *)
Texts ==
    ClipTexts \cup { QuotedHistory[k].content : k \in 1..Len(QuotedHistory) }

(* the texts with a character that is not a blank *)
NonBlank == { t \in Texts : \E k \in 1..Len(t) : t[k] # " " }

(* this step is update applying Event::ClipboardChanged(c) *)
AppliesClipboardChanged(c) ==
    /\ Len(applied') = Len(applied) + 1
    /\ applied'[Len(applied')].kind = "ClipboardChanged"
    /\ applied'[Len(applied')].content = c

C10_EvictsOldest ==
    [][ \A c \in NonBlank :
          ( /\ AppliesClipboardChanged(c)
            /\ Len(entries) = MAX_HISTORY_SIZE
            /\ entries[1].content # c )
          => ( /\ Len(entries') = MAX_HISTORY_SIZE
               /\ entries'[1].content = c
               /\ \A k \in 1..(MAX_HISTORY_SIZE - 1) : entries'[k + 1] = entries[k] )
      ]_vars

(* the saved history of MAX_HISTORY_SIZE entries after one more insertion: *)
(* its oldest entry (timestamp 0) is gone, the second oldest is last       *)
C10_Witness ==
    /\ Len(entries) = MAX_HISTORY_SIZE
    /\ entries[1].timestamp \in Timestamps
    /\ entries[2] = SavedHistory(MAX_HISTORY_SIZE)[1]
    /\ entries[MAX_HISTORY_SIZE] = SavedHistory(MAX_HISTORY_SIZE)[MAX_HISTORY_SIZE - 1]

(* C4: events are applied one at a time in the order they were sent on the *)
(* channel: whenever an event sent earlier and an event sent later have    *)
(* both been applied, each application of the earlier one comes before     *)
(* each application of the later one, whichever thread sent them.          *)
C4_AppliedInSendOrder ==
    \A i, j \in 1..Len(applied) :
        applied[i].id < applied[j].id => i < j

(* a hotkey event and a clipboard event, sent by different threads, were   *)
(* both applied                                                            *)
C4_Witness ==
    \E i, j \in 1..Len(applied) :
        /\ applied[i].kind = "HotkeyTriggered"
        /\ applied[j].kind = "ClipboardChanged"
        /\ applied[i].id > applied[j].id

(* C8: duplicate suppression looks at the newest entry only: applying      *)
(* ClipboardChanged(c) with a non-blank c leaves the history unchanged     *)
(* exactly when c is the content of the entry at index 0; otherwise an     *)
(* entry with content c is inserted at index 0 in front of the previous    *)
(* entries, also when an older entry already holds c (a, b, a gives        *)
(* [a, b, a] and a, a gives [a]).                                          *)
C8_AdjacentDedupOnly ==
    [][ \A c \in NonBlank :
          AppliesClipboardChanged(c)
          => IF entries # <<>> /\ entries[1].content = c
             THEN entries' = entries
             ELSE /\ entries' # entries
                  /\ entries'[1].content = c
                  /\ \A k \in 1..Len(entries) :
                        k < MAX_HISTORY_SIZE => entries'[k + 1] = entries[k]
      ]_vars

(* a was recorded again behind b: the history reads a, b, a *)
C8_Witness ==
    /\ Contents(entries) = << <<"a">>, <<"b">>, <<"a">> >>
    /\ entries[1].timestamp \in Timestamps
    /\ entries[2].timestamp \in Timestamps

(* C9: applying ClipboardChanged with an empty or whitespace-only content  *)
(* changes neither the history nor the history file.                       *)
C9_BlankIgnored ==
    [][ \A c \in ClipTexts \ NonBlank :
          AppliesClipboardChanged(c)
          => /\ entries' = entries
             /\ storage' = storage
      ]_vars

(* update has applied a whitespace-only ClipboardChanged *)
C9_Witness ==
    \E i \in 1..Len(applied) :
        /\ applied[i].kind = "ClipboardChanged"
        /\ applied[i].content = <<" ">>

(* this step is update handling Message::SelectEntry(i) *)
Selects(i) ==
    /\ selects' = selects + 1
    /\ update_SelectEntry(i)

(* C6 as stated: after SelectEntry(i) with i smaller than the history      *)
(* length, the external clipboard holds the content of entry i and         *)
(* window_visible is false.                                                *)
C6_AsStated ==
    [][ \A i \in SelectIndices :
          (Selects(i) /\ i < Len(entries))
          => /\ clipboard' = entries[i + 1].content
             /\ window_visible' = FALSE
      ]_vars

(* C6, amended: after SelectEntry(i) with i smaller than the history       *)
(* length window_visible is false, and when set_text succeeded (the paste  *)
(* follows) the external clipboard holds the content of entry i;           *)
(* when set_text failed the clipboard is unchanged.                        *)
C6_SelectValid ==
    [][ \A i \in SelectIndices :
          (Selects(i) /\ i < Len(entries))
          => /\ window_visible' = FALSE
             /\ IF core_pc' = "paste"
                THEN clipboard' = entries[i + 1].content
                ELSE clipboard' = clipboard /\ core_pc' = "idle"
      ]_vars

(* the entry at index 1 of the saved history was selected while the window *)
(* was shown (one hotkey event applied, the window command issued), its    *)
(* content is on the clipboard and the flag is false again                 *)
C6_Witness ==
    /\ selects = 1
    /\ pastes = 1
    /\ Len(entries) = MAX_HISTORY_SIZE
    /\ clipboard = SavedHistory(MAX_HISTORY_SIZE)[2].content
    /\ clipboard # entries[1].content
    /\ applied = << HotkeyTriggered(1) >>
    /\ window_mode = "Windowed"
    /\ window_visible = FALSE

(* C7: SelectEntry(i) with i at or beyond the history length changes       *)
(* nothing: not the history, window_visible or the clipboard, no paste,    *)
(* and no command is issued.                                               *)
C7_OutOfRangeNoOp ==
    [][ \A i \in SelectIndices :
          (Selects(i) /\ i >= Len(entries))
          => UNCHANGED << entries, storage, window_visible, clipboard,
                          last_clipboard_content, pastes, commands,
                          messages, window_mode >>
      ]_vars

(* ids of the events that can still reach update: in the mpsc channel, in  *)
(* the watch channel and not yet taken by the subscription, or in a queued *)
(* Message::EventReceived                                                  *)
InFlight ==
    { rx[k].id : k \in 1..Len(rx) }
    \cup ( IF event_tx.version # event_rx \/ sub_pc = "borrow"
           THEN { event_tx.value.id }
           ELSE {} )
    \cup { messages[k].event.id : k \in 1..Len(messages) }

AppliedIds == { applied[k].id : k \in 1..Len(applied) }

(* nothing is on its way to update *)
Drained ==
    /\ core_pc = "idle"
    /\ rx = <<>>
    /\ event_tx.version = event_rx
    /\ sub_pc = "changed"
    /\ messages = <<>>
    /\ commands = 0

(* C2: no event is lost between the producers and the core: every event    *)
(* sent on the channel is eventually applied by update.  An event that is  *)
(* neither applied nor in flight can never be applied, so the claim        *)
(* requires every sent event to be applied or still in flight.             *)
C2_NoEventLost ==
    \A id \in 1..sent : id \in AppliedIds \/ id \in InFlight

(* C3: every HotkeyTriggered flips window_visible exactly once: no event   *)
(* is applied twice, and once everything sent has been handled and no      *)
(* entry was selected, window_visible is true exactly when the number of   *)
(* presses is odd.                                                         *)
C3_OneFlipPerPress ==
    /\ \A i, j \in 1..Len(applied) : applied[i].id = applied[j].id => i = j
    /\ (Drained /\ selects = 0) => (window_visible <=> presses % 2 = 1)

(* C5: when no other application touched the clipboard, every              *)
(* ClipboardChanged the core applies after a selection wrote an entry's    *)
(* content is the watcher's observation of that write; the claim says the  *)
(* history is then what it was before the selection.                       *)
C5_SelfWriteBenign ==
    [][ \A c \in ClipTexts :
          (copies = 0 /\ pastes > 0 /\ AppliesClipboardChanged(c))
          => entries' = entries
      ]_vars

(* C11: loading the history at startup never fails the process: without   *)
(* a file, and with a file of any invalid content (not parseable, partly   *)
(* written, not readable as text), the application runs and starts with    *)
(* the empty history.                                                      *)
C11_LoadNeverFails ==
    /\ process # "panicked"
    /\ (applied = <<>> /\ storage \in { NoFile, Malformed, BinaryFile })
       => entries = <<>>

(* C14: with --daemon the interactive application is never launched: the   *)
(* process has exited, with code 0 after a successful registration and     *)
(* with another code after a failed one.                                   *)
C14_DaemonOnlyRegisters ==
    daemon => process \in { "exited", "exited with an error" }

(* this step is update inserting an entry with content c *)
Inserts(c) ==
    /\ AppliesClipboardChanged(c)
    /\ entries = <<>> \/ entries[1].content # c

(* C12: a failed write of the history file neither undoes the insertion    *)
(* nor stops the core: the new entry is at index 0 in front of the         *)
(* previous entries whatever the write did, and every insertion whose      *)
(* write succeeds, also one after a failed write, leaves the full current  *)
(* list in the file.                                                       *)
C12_FailedWriteKeepsEntry ==
    [][ \A c \in NonBlank :
          Inserts(c)
          => /\ Len(entries') >= 1
             /\ entries'[1].content = c
             /\ Len(entries') >= Len(entries)
             /\ \A k \in 1..Len(entries) :
                   k < MAX_HISTORY_SIZE => entries'[k + 1] = entries[k]
             /\ failures' = failures => load(storage') = entries'
      ]_vars

(* two entries were recorded into an empty history; one write failed, and  *)
(* the file holds both entries: the write of the first entry failed, the   *)
(* core went on, and the write of the second one saved the whole list      *)
C12_Witness ==
    /\ failures = 1
    /\ Len(entries) = 2
    /\ entries[1].timestamp \in Timestamps
    /\ entries[2].timestamp \in Timestamps
    /\ storage.kind = "text"
    /\ load(storage) = entries

(* C13: the history survives a restart: after every insertion whose write  *)
(* succeeded the file parses to exactly the history in memory, entries and *)
(* order, and a restart while no write has failed starts with the history  *)
(* that was in memory.                                                     *)
C13_RoundTrip ==
    [][ /\ \A c \in NonBlank :
              (Inserts(c) /\ failures' = failures)
              => /\ storage'.kind = "text"
                 /\ from_str(storage'.data).ok
                 /\ from_str(storage'.data).value = entries'
        /\ (restarts' = restarts + 1 /\ failures = 0) => entries' = entries
      ]_vars

(* the process was started again and holds, before any new event, two      *)
(* entries recorded by the previous process                                *)
C13_Witness ==
    /\ restarts = 1
    /\ applied = <<>>
    /\ Len(entries) >= 2
    /\ entries[1].timestamp \in Timestamps
    /\ entries[2].timestamp \in Timestamps
    /\ entries[1].content # entries[2].content

(* the ClipboardChanged events waiting in the mpsc channel *)
WatcherEvents == SelectSeq(rx, LAMBDA e : e.kind = "ClipboardChanged")

(* C15: a poll iteration of the watcher emits ClipboardChanged(c) exactly  *)
(* when the read succeeds with c non-empty and different from last_content *)
(* and then sets last_content to c; otherwise it emits nothing and leaves  *)
(* last_content alone. last_content changes in no other step, so two       *)
(* consecutive events of the watcher carry different contents.             *)
C15_WatcherEmitsChanges ==
    [][ /\ \A k \in 1..(Len(WatcherEvents') - 1) :
              WatcherEvents'[k].content # WatcherEvents'[k + 1].content
        /\ WatcherEvents' # <<>>
           => WatcherEvents'[Len(WatcherEvents')].content = last_content'
        /\ IF watcher_pc # "sleep" /\ watcher_pc' = "sleep"
           THEN IF /\ watcher_pc = "locked"
                   /\ clipboard # <<>>
                   /\ clipboard # last_content
                THEN /\ rx' = Append(rx, ClipboardChanged(clipboard, sent + 1))
                     /\ sent' = sent + 1
                     /\ last_content' = clipboard
                ELSE /\ rx' = rx
                     /\ sent' = sent
                     /\ last_content' = last_content
           ELSE /\ last_content' = last_content
                /\ \A k \in 1..Len(rx') :
                      rx'[k].kind = "ClipboardChanged"
                      => \E j \in 1..Len(rx) : rx[j] = rx'[k]
      ]_vars

(* the watcher has emitted an event for each of two copies, the second for *)
(* the text now on the clipboard, and both are still in the channel        *)
C15_Witness ==
    /\ Len(WatcherEvents) = 2
    /\ watcher_pc = "sleep"
    /\ clipboard = last_content
    /\ copies = 2
    /\ sent = 2

(* C16: the clipboard handle is used under the lock and the lock is never  *)
(* held across a blocking step: the watcher does not hold it while         *)
(* sleeping, and the core holds it neither while waiting for the next      *)
(* message nor while injecting the paste keystrokes.                       *)
C16_LockNotHeldWhileBlocked ==
    /\ watcher_pc = "sleep" => mutex # "watcher"
    /\ watcher_pc # "sleep" => mutex = "watcher"
    /\ core_pc = "idle" => mutex # "core"
    /\ core_pc = "paste" => mutex # "core"

(* C17: in a selection of a valid index the paste keystrokes are injected  *)
(* only after set_text of the entry's content has succeeded in that        *)
(* selection; when set_text fails the clipboard is as before, nothing is   *)
(* pasted, the process keeps running and update returns its command.       *)
C17_PasteOnlyAfterWrite ==
    [][ /\ (core_pc = "idle" /\ core_pc' = "paste")
           => \E i \in SelectIndices :
                 /\ Selects(i)
                 /\ has_entry(entries, i)
                 /\ clipboard' = get(entries, i).content
                 /\ last_clipboard_content' = get(entries, i).content
                 /\ pastes' = pastes
        /\ pastes' # pastes
           => /\ core_pc = "paste"
              /\ \E k \in 1..Len(entries) :
                    entries[k].content = last_clipboard_content
              /\ pastes' = pastes + 1
              /\ core_pc' = "idle"
        /\ (selects' = selects + 1 /\ core_pc' = "idle")
           => /\ clipboard' = clipboard
              /\ pastes' = pastes
              /\ process' = "running"
              /\ commands' = commands + 1
      ]_vars

(* the window was shown by the hotkey; a selection of a valid index then   *)
(* hid it but its set_text failed: nothing was pasted, and the core went   *)
(* on to handle the ToggleWindow that the selection returned               *)
C17_Witness ==
    /\ applied = << HotkeyTriggered(1) >>
    /\ selects = 1
    /\ window_visible = FALSE
    /\ pastes = 0
    /\ core_pc = "idle"
    /\ process = "running"
    /\ commands = 0
    /\ messages = <<>>
    /\ window_mode = "Hidden"

(* this step is update applying Event::HotkeyTriggered *)
AppliesHotkeyTriggered ==
    /\ Len(applied') = Len(applied) + 1
    /\ applied'[Len(applied')].kind = "HotkeyTriggered"

(* C18: only the application of a ClipboardChanged event changes the       *)
(* history or the history file; HotkeyTriggered, SelectEntry and           *)
(* ToggleWindow leave both alone, and the application of ClipboardChanged  *)
(* leaves window_visible and the window alone and returns no command.      *)
C18_OnlyClipboardChangedMutates ==
    [][ /\ (entries' # entries \/ storage' # storage)
           => \E c \in NonBlank : AppliesClipboardChanged(c)
        /\ \A c \in Texts :
              AppliesClipboardChanged(c)
              => /\ window_visible' = window_visible
                 /\ window_mode' = window_mode
                 /\ commands' = commands
      ]_vars

(* the window was shown by the hotkey and is still shown after a clipboard *)
(* event put a new entry in front of the saved one; a selection was        *)
(* handled as well                                                         *)
C18_Witness ==
    /\ selects = 1
    /\ Len(applied) = 2
    /\ applied[1].kind = "HotkeyTriggered"
    /\ applied[2].kind = "ClipboardChanged"
    /\ window_visible
    /\ window_mode = "Windowed"
    /\ Len(entries) = 2
    /\ entries[1].timestamp \in Timestamps
    /\ entries[1].content = applied[2].content
    /\ entries[2].timestamp \notin Timestamps

(* C19: the subscription never produces Message::HotkeyPressed: once an    *)
(* event was published the watch channel holds Some(event), and the        *)
(* subscription borrows only after a publication.  So window_visible       *)
(* changes only when a HotkeyTriggered event is applied or a valid         *)
(* SelectEntry sets it to false.                                           *)
C19_FallbackUnreachable ==
    [][ /\ \A k \in 1..Len(messages') : messages'[k] # HotkeyPressed
        /\ event_tx'.version > 0 => event_tx'.value # None
        /\ sub_pc' = "borrow" => event_tx'.value # None
        /\ window_visible' # window_visible
           => \/ AppliesHotkeyTriggered
              \/ \E i \in SelectIndices :
                    /\ Selects(i)
                    /\ has_entry(entries, i)
                    /\ window_visible' = FALSE
      ]_vars

(* the subscription delivered two published events, both hotkey presses,   *)
(* and each flipped window_visible                                         *)
C19_Witness ==
    /\ applied = << HotkeyTriggered(1), HotkeyTriggered(2) >>
    /\ sub_pc = "changed"
    /\ event_tx.version = 2
    /\ event_rx = 2
    /\ messages = <<>>
    /\ window_visible = FALSE

(* C20: whenever update is not running and no ToggleWindow is pending,     *)
(* neither as a command nor as a message, the window is Windowed if        *)
(* window_visible is true and Hidden if it is false.                       *)
C20_WindowFollowsFlag ==
    ( /\ core_pc = "idle"
      /\ commands = 0
      /\ \A k \in 1..Len(messages) : messages[k] # ToggleWindow )
    => window_mode = IF window_visible THEN "Windowed" ELSE "Hidden"

(* the hotkey showed the window, a selection pasted an entry and hid it,   *)
(* both ToggleWindow messages were handled and the window is hidden        *)
C20_Witness ==
    /\ applied = << HotkeyTriggered(1) >>
    /\ selects = 1
    /\ pastes = 1
    /\ core_pc = "idle"
    /\ commands = 0
    /\ messages = <<>>
    /\ window_visible = FALSE
    /\ window_mode = "Hidden"

====
